---- MODULE Spec2Model ----
(***************************************************************************)
(* Offline School OS: the authentication middleware (middleware/auth.js),  *)
(* the login handler (controllers/authController.js) and the attendance    *)
(* handlers (controllers/attendanceController.js) over the SQLite tables   *)
(* users, students and attendance (db/database.js).                        *)
(*                                                                         *)
(* Every request is a slot of req.  A handler suspends at each await on a  *)
(* database call; one action is one run of the handler from one await to   *)
(* the next, and each SQL statement executes atomically inside its action. *)
(* Missing (undefined) JavaScript values are 0 for numbers and "" for      *)
(* strings: both are falsy, as undefined is.  Time is counted in hours.    *)
(***************************************************************************)
EXTENDS Integers, Sequences, FiniteSets, TLC

VARIABLES attendance, nextId, students, users, clock, issued, sessions, req

vars == <<attendance, nextId, students, users, clock, issued, sessions, req>>

(***************************************************************************)
(* Bounds of the model.                                                    *)
(***************************************************************************)
MaxId == 3          \* attendance ids handed out by AUTOINCREMENT
MaxBatch == 2       \* items in one recordAttendance body, requests one after another
MaxConcBatch == 1   \* items in one recordAttendance body, requests interleaved
MaxLogins == 1      \* tokens issued by login
MaxClock == 25      \* hours the clock runs for
MaxUsers == 3       \* rows of the users table

Procs == {1, 2}     \* requests in flight at the same time

(***************************************************************************)
(* Program constants.                                                      *)
(***************************************************************************)
TokenTTL == 24          \* generateToken: expiresIn '24h'
SessionTokenTTL == 1    \* authenticateToken: expiresIn '1h'
TickStep == TokenTTL \div 2
MinPasswordLength == 6  \* register: password.length < 6

Today == 1
Dates == {Today, Today + 1}
validStatuses == {"present", "absent", "late", "excused"}
SeedStatuses == {"absent", "late"}      \* of attendanceStatuses in insertDefaultData

\* values a client sends
InStudentIds == {0, 1, 2, 3}            \* 0: field missing; 3: no such student
InDates == {0} \cup Dates               \* 0: field missing
InStatuses == {"", "present", "absent"} \* "": field missing
InNotes == {""}
InClassIds == {0, 1, 2}                 \* 0: field missing; 2: class without students

\* the records a client puts in a body: the well-formed ones, and a record with
\* one field or every field missing
Items ==
  [student_id : InStudentIds \ {0}, date : Dates, status : InStatuses \ {""}, notes : InNotes]
  \cup {[student_id |-> 0, date |-> Today, status |-> "present", notes |-> ""],
        [student_id |-> 1, date |-> 0, status |-> "present", notes |-> ""],
        [student_id |-> 1, date |-> Today, status |-> "", notes |-> ""],
        [student_id |-> 0, date |-> 0, status |-> "", notes |-> ""]}

NoItem == [student_id |-> 0, date |-> 0, status |-> "", notes |-> ""]

(***************************************************************************)
(* Tables.                                                                 *)
(***************************************************************************)
\* users rows: the seeded administrator and a teacher created by register
AdminRow == [id |-> 1, username |-> "admin", email |-> "admin@school-os.local",
             password_hash |-> <<"bcrypt", "admin">>, role |-> "admin",
             full_name |-> "System Administrator"]

TeacherRow == [id |-> 2, username |-> "teacher", email |-> "teacher@school-os.local",
               password_hash |-> <<"bcrypt", "secret">>, role |-> "teacher",
               full_name |-> "Teacher"]

\* bcrypt.compare(password, hash)
bcryptCompare(password, hash) == hash = <<"bcrypt", password>>

NoUser == [id |-> 0, username |-> "", email |-> "", role |-> "", full_name |-> ""]

\* const { password_hash, ...userProfile } = user
withoutPasswordHash(user) == [f \in DOMAIN user \ {"password_hash"} |-> user[f]]

\* the columns named by SELECT id, username, email, role, full_name, ...
userColumns(u) ==
  [id |-> u.id, username |-> u.username, email |-> u.email, role |-> u.role,
   full_name |-> u.full_name]

\* the lookup with SELECT * in place of the list of columns
selectUserRowById(id) ==
  IF \E u \in users : u.id = id THEN CHOOSE u \in users : u.id = id ELSE NoUser

\* SELECT id, username, email, role, ... FROM users WHERE id = ?
selectUserById(id) ==
  IF \E u \in users : u.id = id
    THEN LET u == CHOOSE u \in users : u.id = id
         IN [id |-> u.id, username |-> u.username, email |-> u.email, role |-> u.role,
             full_name |-> u.full_name]
    ELSE NoUser

\* SELECT * FROM users WHERE username = ? OR email = ?
selectUserByLogin(name) == {u \in users : u.username = name \/ u.email = name}

\* SELECT id FROM students WHERE class_id = ? AND status = "active", in rowid order
RECURSIVE SeqOfSet(_)
SeqOfSet(S) ==
  IF S = {} THEN <<>>
  ELSE LET m == CHOOSE x \in S : \A y \in S : x <= y
       IN <<m>> \o SeqOfSet(S \ {m})

\* the SELECT without WHERE class_id = ?
activeStudentsOfAnyClass(class_id) ==
  SeqOfSet({s \in DOMAIN students : students[s].status = "active"})

\* SELECT id FROM students WHERE class_id = ? AND status = "active", in rowid order
activeStudents(class_id) ==
  SeqOfSet({s \in DOMAIN students :
              students[s].class_id = class_id /\ students[s].status = "active"})

\* SELECT id FROM attendance WHERE student_id = ? AND date = ?  (first row or null)
selectAttendance(student_id, date) ==
  LET rows == {a \in attendance : a.student_id = student_id /\ a.date = date}
  IN IF rows = {} THEN 0
     ELSE (CHOOSE a \in rows : \A b \in rows : a.id <= b.id).id


(***************************************************************************)
(* Token service (jsonwebtoken with the process-wide JWT_SECRET).          *)
(* A token is its payload plus the state of its signature: "ok" when it    *)
(* was signed with JWT_SECRET over this payload, "bad" when the signature  *)
(* does not match, "malformed" when the string is not a JWT at all.        *)
(***************************************************************************)
NoToken == [userId |-> 0, username |-> "", role |-> "", exp |-> 0, sig |-> ""]

MalformedToken == [userId |-> 0, username |-> "", role |-> "", exp |-> 0, sig |-> "malformed"]

\* jwt.sign(payload, JWT_SECRET, { expiresIn })
jwtSign(userId, username, role, ttl) ==
  [userId |-> userId, username |-> username, role |-> role, exp |-> clock + ttl, sig |-> "ok"]

\* the token of a login signed with the expiry of the session token
generateTokenOneHour(user) == jwtSign(user.id, user.username, user.role, SessionTokenTTL)

\* generateToken(user)
generateToken(user) == jwtSign(user.id, user.username, user.role, TokenTTL)

\* a verification that looks at the expiry before it checks the signature
jwtVerifyExpiryFirst(token) ==
  IF token.sig = "malformed" THEN "JsonWebTokenError"
  ELSE IF clock >= token.exp THEN "TokenExpiredError"
  ELSE IF token.sig # "ok" THEN "JsonWebTokenError"
  ELSE ""

\* jwt.verify(token, JWT_SECRET): the error name, or "" and the payload is decoded.
\* The structure is checked first, then the signature, then the expiry.
jwtVerify(token) ==
  IF token.sig = "malformed" THEN "JsonWebTokenError"
  ELSE IF token.sig # "ok" THEN "JsonWebTokenError"
  ELSE IF clock >= token.exp THEN "TokenExpiredError"
  ELSE ""

\* what a client can make of a token it holds: change the claims and keep the
\* signature, which no longer matches
Tampered(t) ==
  { [t EXCEPT !.sig = "bad"],
    [t EXCEPT !.sig = "bad", !.role = "admin", !.exp = t.exp + TokenTTL] }

NoHeader == [scheme |-> "", token |-> NoToken]

\* Authorization headers a client can send; 'Bearer ' followed by nothing carries
\* the empty string, which is NoToken
Headers ==
  {NoHeader, [scheme |-> "Bearer", token |-> NoToken]}
  \cup [scheme : {"Bearer", "Basic"}, token : issued]
  \cup [scheme : {"Bearer"}, token : {MalformedToken} \cup UNION {Tampered(t) : t \in issued}]

NoSession == [userId |-> 0, username |-> "", role |-> ""]

\* req.session for the session cookie the request carries; a cookie is named by
\* the session it was set for
sessionOf(cookie) == IF cookie \in sessions THEN cookie ELSE NoSession

\* session cookies a client can send
Cookies == {NoSession} \cup sessions

(***************************************************************************)
(* authenticateToken(req, res, next): the outcome for a request carrying   *)
(* header hdr and session cookie.  status 0 means next() was called.       *)
(***************************************************************************)
\* the header read under a name req.headers does not have: always undefined
bearerTokenUnread(hdr) == NoToken

bearerToken(hdr) == IF hdr.scheme = "Bearer" THEN hdr.token ELSE NoToken

sessionToken(cookie) ==
  LET s == sessionOf(cookie)
  IN IF s.userId # 0 THEN jwtSign(s.userId, s.username, "", SessionTokenTTL) ELSE NoToken

\* the middleware without the if (!user) answer: next() is called with whatever
\* the lookup returned
authenticateTokenNoUserCheck(hdr, cookie) ==
  LET bearer == bearerToken(hdr)
      token == IF bearer # NoToken THEN bearer ELSE sessionToken(cookie)
      err == jwtVerify(token)
      user == selectUserById(token.userId)
  IN IF token = NoToken
       THEN [status |-> 401, error |-> "Access denied. No token provided.", user |-> NoUser,
             lookup |-> FALSE]
     ELSE IF err = "JsonWebTokenError"
       THEN [status |-> 401, error |-> "Invalid token.", user |-> NoUser, lookup |-> FALSE]
     ELSE IF err = "TokenExpiredError"
       THEN [status |-> 401, error |-> "Token expired. Please login again.", user |-> NoUser,
             lookup |-> FALSE]
     ELSE [status |-> 0, error |-> "", user |-> user, lookup |-> TRUE]

\* the middleware looking at the session before the Authorization header
authenticateTokenSessionFirst(hdr, cookie) ==
  LET fromSession == sessionToken(cookie)
      token == IF fromSession # NoToken THEN fromSession ELSE bearerToken(hdr)
      err == jwtVerify(token)
      user == selectUserById(token.userId)
  IN IF token = NoToken
       THEN [status |-> 401, error |-> "Access denied. No token provided.", user |-> NoUser,
             lookup |-> FALSE]
     ELSE IF err = "JsonWebTokenError"
       THEN [status |-> 401, error |-> "Invalid token.", user |-> NoUser, lookup |-> FALSE]
     ELSE IF err = "TokenExpiredError"
       THEN [status |-> 401, error |-> "Token expired. Please login again.", user |-> NoUser,
             lookup |-> FALSE]
     ELSE IF user = NoUser
       THEN [status |-> 401, error |-> "Invalid token. User not found.", user |-> NoUser,
             lookup |-> TRUE]
     ELSE [status |-> 0, error |-> "", user |-> user, lookup |-> TRUE]

\* the middleware attaching the role claim of the token for the role of the row
authenticateTokenRoleClaim(hdr, cookie) ==
  LET bearer == bearerToken(hdr)
      token == IF bearer # NoToken THEN bearer ELSE sessionToken(cookie)
      err == jwtVerify(token)
      user == selectUserById(token.userId)
  IN IF token = NoToken
       THEN [status |-> 401, error |-> "Access denied. No token provided.", user |-> NoUser,
             lookup |-> FALSE]
     ELSE IF err = "JsonWebTokenError"
       THEN [status |-> 401, error |-> "Invalid token.", user |-> NoUser, lookup |-> FALSE]
     ELSE IF err = "TokenExpiredError"
       THEN [status |-> 401, error |-> "Token expired. Please login again.", user |-> NoUser,
             lookup |-> FALSE]
     ELSE IF user = NoUser
       THEN [status |-> 401, error |-> "Invalid token. User not found.", user |-> NoUser,
             lookup |-> TRUE]
     ELSE [status |-> 0, error |-> "", user |-> [user EXCEPT !.role = token.role],
           lookup |-> TRUE]

\* lookup tells whether the users table was read
authenticateToken(hdr, cookie) ==
  LET bearer == bearerToken(hdr)
      token == IF bearer # NoToken THEN bearer ELSE sessionToken(cookie)
      err == jwtVerify(token)
      user == selectUserById(token.userId)
  IN IF token = NoToken
       THEN [status |-> 401, error |-> "Access denied. No token provided.", user |-> NoUser,
             lookup |-> FALSE]
     ELSE IF err = "JsonWebTokenError"
       THEN [status |-> 401, error |-> "Invalid token.", user |-> NoUser, lookup |-> FALSE]
     ELSE IF err = "TokenExpiredError"
       THEN [status |-> 401, error |-> "Token expired. Please login again.", user |-> NoUser,
             lookup |-> FALSE]
     ELSE IF user = NoUser
       THEN [status |-> 401, error |-> "Invalid token. User not found.", user |-> NoUser,
             lookup |-> TRUE]
     ELSE [status |-> 0, error |-> "", user |-> user, lookup |-> TRUE]

\* the variant that decodes the token without verifying it
optionalAuthUnverified(hdr) ==
  IF hdr.scheme = "Bearer" /\ hdr.token.sig # "malformed"
    THEN selectUserById(hdr.token.userId)
    ELSE NoUser

\* optionalAuth(req, res, next): the user attached before next() is called, NoUser
\* when req.user is left unset.  Only the Authorization header is read; an error
\* thrown by jwt.verify is caught and ignored.
optionalAuth(hdr) ==
  IF hdr.scheme = "Bearer" /\ jwtVerify(hdr.token) = ""
    THEN selectUserById(hdr.token.userId)
    ELSE NoUser

\* the guard answering 403 whenever the role is not 'admin', attached user or not
requireAdminRoleOnly(user) ==
  IF user.role # "admin" THEN 403
  ELSE 0

\* requireAdmin(req, res, next): the status answered, 0 when next() is called
requireAdmin(user) ==
  IF user = NoUser THEN 401
  ELSE IF user.role # "admin" THEN 403
  ELSE 0

\* the guard letting only the role 'teacher' through
requireTeacherRoleOnly(user) ==
  IF user = NoUser THEN 401
  ELSE IF user.role # "teacher" THEN 403
  ELSE 0

\* requireTeacher(req, res, next): the status answered, 0 when next() is called
requireTeacher(user) ==
  IF user = NoUser THEN 401
  ELSE IF user.role \notin {"teacher", "admin"} THEN 403
  ELSE 0

(***************************************************************************)
(* Statements on the attendance table.  Each returns the rows after the    *)
(* statement, the error message it rejects with ("" when it resolves) and  *)
(* { id: lastID, changes }.                                                *)
(***************************************************************************)
UniqueError == "SQLITE_CONSTRAINT: UNIQUE constraint failed: attendance.student_id, attendance.date"
ForeignKeyError == "SQLITE_CONSTRAINT: FOREIGN KEY constraint failed"
MissingFieldsError == "Missing required fields: student_id, date, status"

\* a NULL notes column is "": notes || null stores NULL for a missing or empty notes

\* the INSERT on a table declared without UNIQUE(student_id, date)
InsertWithoutUnique(student_id, date, status, notes) ==
  IF student_id \notin DOMAIN students
    THEN [rows |-> attendance, error |-> ForeignKeyError, id |-> 0, changes |-> 0]
  ELSE [rows |-> attendance \cup {[id |-> nextId, student_id |-> student_id, date |-> date,
                                   status |-> status, notes |-> notes]},
        error |-> "", id |-> nextId, changes |-> 1]

\* the INSERT written as INSERT OR REPLACE: the row in conflict is replaced
InsertOrReplace(student_id, date, status, notes) ==
  IF student_id \notin DOMAIN students
    THEN [rows |-> attendance, error |-> ForeignKeyError, id |-> 0, changes |-> 0]
  ELSE [rows |-> {a \in attendance : ~(a.student_id = student_id /\ a.date = date)}
                   \cup {[id |-> nextId, student_id |-> student_id, date |-> date,
                          status |-> status, notes |-> notes]},
        error |-> "", id |-> nextId, changes |-> 1]

\* INSERT INTO attendance (student_id, date, status, notes) VALUES (?, ?, ?, ?)
\* under FOREIGN KEY (student_id) REFERENCES students (id) and UNIQUE(student_id, date)
InsertAttendance(student_id, date, status, notes) ==
  IF student_id \notin DOMAIN students
    THEN [rows |-> attendance, error |-> ForeignKeyError, id |-> 0, changes |-> 0]
  ELSE IF \E a \in attendance : a.student_id = student_id /\ a.date = date
    THEN [rows |-> attendance, error |-> UniqueError, id |-> 0, changes |-> 0]
  ELSE [rows |-> attendance \cup {[id |-> nextId, student_id |-> student_id, date |-> date,
                                   status |-> status, notes |-> notes]},
        error |-> "", id |-> nextId, changes |-> 1]

\* the UPDATE without status = ? in its SET
UpdateNotesByPair(status, notes, student_id, date) ==
  LET hit == {a \in attendance : a.student_id = student_id /\ a.date = date}
  IN [rows |-> (attendance \ hit) \cup {[a EXCEPT !.notes = notes] : a \in hit},
      error |-> "", id |-> 0, changes |-> Cardinality(hit)]

\* UPDATE attendance SET status = ?, notes = ? WHERE student_id = ? AND date = ?
UpdateAttendanceByPair(status, notes, student_id, date) ==
  LET hit == {a \in attendance : a.student_id = student_id /\ a.date = date}
  IN [rows |-> (attendance \ hit)
                 \cup {[a EXCEPT !.status = status, !.notes = notes] : a \in hit},
      error |-> "", id |-> 0, changes |-> Cardinality(hit)]

\* UPDATE attendance SET status = ?, notes = ? WHERE id = ?
UpdateAttendanceById(status, notes, id) ==
  LET hit == {a \in attendance : a.id = id}
  IN [rows |-> (attendance \ hit)
                 \cup {[a EXCEPT !.status = status, !.notes = notes] : a \in hit},
      error |-> "", id |-> 0, changes |-> Cardinality(hit)]

\* the DELETE with WHERE student_id = ? in place of WHERE id = ?
DeleteAttendanceByStudent(id) ==
  LET hit == {a \in attendance : a.student_id = id}
  IN [rows |-> attendance \ hit, error |-> "", id |-> 0, changes |-> Cardinality(hit)]

\* DELETE FROM attendance WHERE id = ?
DeleteAttendanceById(id) ==
  LET hit == {a \in attendance : a.id = id}
  IN [rows |-> attendance \ hit, error |-> "", id |-> 0, changes |-> Cardinality(hit)]


(***************************************************************************)
(* Requests.  hdr and cookie are the request's credentials, read by        *)
(* authenticateToken; item, id and class_id are its body and parameters.   *)
(***************************************************************************)
Idle ==
  [pc |-> "idle", kind |-> "", hdr |-> NoHeader, cookie |-> NoSession, user |-> NoUser,
   n |-> 0, id |-> 0, class_id |-> 0, item |-> NoItem,
   existing |-> 0, todo |-> <<>>, results |-> <<>>, status |-> 0, error |-> "",
   data |-> NoUser, summary |-> [total |-> 0, successful |-> 0, failed |-> 0],
   form |-> [username |-> "", email |-> "", password |-> "", full_name |-> "", role |-> ""]]

\* the first step of each route's handler
HandlerEntry(kind) ==
  CASE kind = "record"  -> "record"
    [] kind = "bulk"    -> "bulk"
    [] kind = "update"  -> "update"
    [] kind = "delete"  -> "delete"
    [] kind = "markAll" -> "mark"
    [] kind = "deleteStudent" -> "deleteStudent"
    [] kind = "admin" -> "requireAdmin"
    [] kind = "teacher" -> "requireTeacher"
    [] kind = "verify" -> "verify"
    [] kind = "profile" -> "profile"
    [] kind = "updateProfile" -> "updateProfile"
    [] kind = "register" -> "register"

\* an item's entry in results
Failed(error, data) ==
  [success |-> FALSE, action |-> "", id |-> 0, error |-> error, data |-> data]

Succeeded(action, id, data) ==
  [success |-> TRUE, action |-> action, id |-> id, error |-> "", data |-> data]

\* results.filter(r => r.success).length
RECURSIVE successCount(_)
successCount(results) ==
  IF results = <<>> THEN 0
  ELSE (IF Head(results).success THEN 1 ELSE 0) + successCount(Tail(results))

\* results.filter(r => !r.success).length
RECURSIVE errorCount(_)
errorCount(results) ==
  IF results = <<>> THEN 0
  ELSE (IF Head(results).success THEN 0 ELSE 1) + errorCount(Tail(results))

\* the summary with every entry counted as failed
summaryAllFailed(results) ==
  [total |-> Len(results), successful |-> successCount(results), failed |-> Len(results)]

\* summary: { total, successful, failed }
summary(results) ==
  [total |-> Len(results), successful |-> successCount(results), failed |-> errorCount(results)]

\* insertDefaultData: the administrator, the sample students and an attendance
\* record with a random status for the first of them
Init ==
  /\ \E s \in SeedStatuses :
       attendance = {[id |-> 1, student_id |-> 1, date |-> Today, status |-> s, notes |-> ""]}
  /\ nextId = 2
  /\ students = (1 :> [class_id |-> 1, status |-> "active"])
                  @@ (2 :> [class_id |-> 1, status |-> "active"])
  /\ users = {AdminRow, TeacherRow}
  /\ clock = 0
  /\ issued = {}
  /\ sessions = {}
  /\ req = [p \in Procs |-> Idle]

(***************************************************************************)
(* login (POST /api/auth/login): not behind authenticateToken.             *)
(***************************************************************************)
\* the answers login can give: selectOneQuery returns one row of those that
\* match username = ? OR email = ?, and the query does not say which when a
\* username of one user is the email of another
login(username, password) ==
  LET found == selectUserByLogin(username)
      answer(user) ==
        IF ~bcryptCompare(password, user.password_hash)
          THEN [status |-> 401, token |-> NoToken, user |-> NoUser]
        ELSE [status |-> 200, token |-> generateToken(user),
              user |-> withoutPasswordHash(user)]
  IN IF username = "" \/ password = ""
       THEN {[status |-> 400, token |-> NoToken, user |-> NoUser]}
     ELSE IF found = {}
       THEN {[status |-> 401, token |-> NoToken, user |-> NoUser]}
     ELSE {answer(user) : user \in found}

\* a login request; on success the token is returned and the session is set
Login(username, password) ==
  \E r \in login(username, password) :
     /\ Cardinality(issued) < MaxLogins
     /\ IF r.status = 200
          THEN /\ issued' = issued \cup {r.token}
               /\ sessions' = sessions \cup {[userId |-> r.user.id,
                                               username |-> r.user.username,
                                               role |-> r.user.role]}
          ELSE UNCHANGED <<issued, sessions>>
     /\ UNCHANGED <<attendance, nextId, students, users, clock, req>>

\* logout (POST /api/auth/logout, not behind authenticateToken):
\* req.session.destroy() removes the session of the cookie from the store, and
\* the answer is 200; the tokens that were issued are not kept anywhere
Logout(cookies) ==
  \E cookie \in cookies :
    /\ sessions' = sessions \ {cookie}
    /\ UNCHANGED <<attendance, nextId, students, users, clock, issued, req>>

\* time passes
Tick ==
  /\ clock + TickStep <= MaxClock
  /\ clock' = clock + TickStep
  /\ UNCHANGED <<attendance, nextId, students, users, issued, sessions, req>>

\* an hour passes
TickHour ==
  /\ clock < MaxClock
  /\ clock' = clock + 1
  /\ UNCHANGED <<attendance, nextId, students, users, issued, sessions, req>>

(***************************************************************************)
(* The attendance router: router.use(authenticateToken), then the route.   *)
(* The body and the parameters of a request are drawn when its handler     *)
(* first reads them.                                                       *)
(***************************************************************************)
Start(p, kind, hdrs, cookies) ==
  \E hdr \in hdrs, cookie \in cookies :
    /\ req[p].pc = "idle"
    /\ req' = [req EXCEPT ![p] = [Idle EXCEPT !.pc = "auth", !.kind = kind,
                                              !.hdr = hdr, !.cookie = cookie]]
    /\ UNCHANGED <<attendance, nextId, students, users, clock, issued, sessions>>

\* POST /api/attendance
StartRecord(p, hdrs, cookies) == Start(p, "record", hdrs, cookies)

\* POST /api/attendance/bulk
StartBulk(p, hdrs, cookies) == Start(p, "bulk", hdrs, cookies)

\* PUT /api/attendance/:id
StartUpdate(p, hdrs, cookies) == Start(p, "update", hdrs, cookies)

\* DELETE /api/attendance/:id
StartDelete(p, hdrs, cookies) == Start(p, "delete", hdrs, cookies)

\* POST /api/attendance/mark-all-present
StartMarkAll(p, hdrs, cookies) == Start(p, "markAll", hdrs, cookies)

\* DELETE /api/students/:id, behind the same router.use(authenticateToken)
StartDeleteStudent(p, hdrs, cookies) == Start(p, "deleteStudent", hdrs, cookies)

\* the middleware without the return in front of res.status(401): the request is
\* answered and the handler runs all the same
AuthenticateFallsThrough(p) ==
  LET r == authenticateToken(req[p].hdr, req[p].cookie)
  IN /\ req[p].pc = "auth"
     /\ req' = [req EXCEPT ![p] = [@ EXCEPT !.pc = HandlerEntry(req[p].kind),
                                            !.status = r.status, !.error = r.error,
                                            !.user = r.user]]
     /\ UNCHANGED <<attendance, nextId, students, users, clock, issued, sessions>>

\* router.use(authenticateToken): answer 401 or attach the user and call next()
Authenticate(p) ==
  LET r == authenticateToken(req[p].hdr, req[p].cookie)
  IN /\ req[p].pc = "auth"
     /\ req' = [req EXCEPT ![p] =
                  IF r.status # 0
                    THEN [@ EXCEPT !.pc = "done", !.status = r.status, !.error = r.error]
                    ELSE [@ EXCEPT !.pc = HandlerEntry(req[p].kind), !.user = r.user]]
     /\ UNCHANGED <<attendance, nextId, students, users, clock, issued, sessions>>

(***************************************************************************)
(* recordAttendance (bulkRecordAttendance calls it).  The items of the     *)
(* body are drawn as the loop reaches them; n is records.length.           *)
(***************************************************************************)
\* a bulk entry point of its own, which answers 400 instead of delegating
BulkRecordAttendanceRejects(p) ==
  /\ req[p].pc = "bulk"
  /\ req' = [req EXCEPT ![p].pc = "done", ![p].status = 400,
                        ![p].error = "Failed to record attendance"]
  /\ UNCHANGED <<attendance, nextId, students, users, clock, issued, sessions>>

\* bulkRecordAttendance: return exports.recordAttendance(req, res)
BulkRecordAttendance(p) ==
  /\ req[p].pc = "bulk"
  /\ req' = [req EXCEPT ![p].pc = "record", ![p].kind = "record"]
  /\ UNCHANGED <<attendance, nextId, students, users, clock, issued, sessions>>

\* records = Array.isArray(attendanceData) ? attendanceData : [attendanceData]
RecordBody(p, maxn) ==
  \E isArray \in BOOLEAN, n \in 0..maxn :
    /\ req[p].pc = "record"
    /\ ~isArray => n = 1
    /\ req' = [req EXCEPT ![p].pc = "loop", ![p].n = n]
    /\ UNCHANGED <<attendance, nextId, students, users, clock, issued, sessions>>

\* !student_id || !date || !status
missingFields(item) == item.student_id = 0 \/ item.date = 0 \/ item.status = ""

\* validation that answers 400 for the whole body at the first failure
RecordInvalidAborts(p, items) ==
  \E item \in items :
    /\ req[p].pc = "loop"
    /\ Len(req[p].results) < req[p].n
    /\ missingFields(item)
    /\ req' = [req EXCEPT ![p].pc = "done", ![p].status = 400,
                          ![p].error = MissingFieldsError]
    /\ UNCHANGED <<attendance, nextId, students, users, clock, issued, sessions>>

\* an iteration that fails validation: push the failure and continue
RecordInvalid(p, items) ==
  \E item \in items :
    /\ req[p].pc = "loop"
    /\ Len(req[p].results) < req[p].n
    /\ missingFields(item)
    /\ req' = [req EXCEPT ![p].results = Append(@, Failed(MissingFieldsError, item))]
    /\ UNCHANGED <<attendance, nextId, students, users, clock, issued, sessions>>

\* an iteration up to the existence check: existing = await selectOneQuery(...)
RecordSelect(p, items) ==
  \E item \in items :
    /\ req[p].pc = "loop"
    /\ Len(req[p].results) < req[p].n
    /\ ~missingFields(item)
    /\ req' = [req EXCEPT ![p].pc = "write", ![p].item = item,
                          ![p].existing = selectAttendance(item.student_id, item.date)]
    /\ UNCHANGED <<attendance, nextId, students, users, clock, issued, sessions>>

\* the write reporting the id of the UPDATE's result, which has none, for the
\* id of the existing record
upsertWriteResultId(existing, item, data) ==
  LET r == IF existing # 0
             THEN UpdateAttendanceByPair(item.status, item.notes, item.student_id, item.date)
             ELSE InsertAttendance(item.student_id, item.date, item.status, item.notes)
  IN [rows |-> r.rows, id |-> r.id,
      entry |-> IF r.error # "" THEN Failed(r.error, data)
                ELSE IF existing # 0 THEN Succeeded("updated", r.id, data)
                ELSE Succeeded("created", r.id, data)]

\* the write of an iteration of recordAttendance or markAllPresent: UPDATE when
\* existing, INSERT otherwise; a rejected statement is caught and pushed as the
\* item's failure
upsertWrite(existing, item, data) ==
  LET r == IF existing # 0
             THEN UpdateAttendanceByPair(item.status, item.notes, item.student_id, item.date)
             ELSE InsertAttendance(item.student_id, item.date, item.status, item.notes)
  IN [rows |-> r.rows, id |-> r.id,
      entry |-> IF r.error # "" THEN Failed(r.error, data)
                ELSE IF existing # 0 THEN Succeeded("updated", existing, data)
                ELSE Succeeded("created", r.id, data)]

\* the write without the inner try: the error reaches the handler's catch, which
\* answers 500
RecordWriteRethrows(p) ==
  LET w == upsertWrite(req[p].existing, req[p].item, req[p].item)
  IN /\ req[p].pc = "write"
     /\ w.id <= MaxId
     /\ attendance' = w.rows
     /\ nextId' = IF w.id # 0 THEN nextId + 1 ELSE nextId
     /\ req' = [req EXCEPT ![p] =
                  IF w.entry.success
                    THEN [@ EXCEPT !.pc = "loop", !.item = NoItem, !.existing = 0,
                                   !.results = Append(@, w.entry)]
                  ELSE [@ EXCEPT !.pc = "done", !.status = 500,
                                 !.error = "Failed to record attendance"]]
     /\ UNCHANGED <<students, users, clock, issued, sessions>>

RecordWrite(p) ==
  LET w == upsertWrite(req[p].existing, req[p].item, req[p].item)
  IN /\ req[p].pc = "write"
     /\ w.id <= MaxId
     /\ attendance' = w.rows
     /\ nextId' = IF w.id # 0 THEN nextId + 1 ELSE nextId
     /\ req' = [req EXCEPT ![p].pc = "loop", ![p].item = NoItem, ![p].existing = 0,
                           ![p].results = Append(@, w.entry)]
     /\ UNCHANGED <<students, users, clock, issued, sessions>>

\* after the loop: res.json({ success: true, results, summary })
RecordFinish(p) ==
  /\ req[p].pc = "loop"
  /\ Len(req[p].results) = req[p].n
  /\ req' = [req EXCEPT ![p].pc = "done", ![p].status = 200,
                        ![p].summary = summary(req[p].results)]
  /\ UNCHANGED <<attendance, nextId, students, users, clock, issued, sessions>>

(***************************************************************************)
(* updateAttendance                                                        *)
(***************************************************************************)
\* the handler without the validStatuses check, as recordAttendance is
UpdateAttendanceUnvalidated(p, statuses, noteses) ==
  \E id \in 1..MaxId, status \in statuses, notes \in noteses :
    LET r == UpdateAttendanceById(status, notes, id)
        body == [req[p] EXCEPT !.id = id, !.item.status = status, !.item.notes = notes]
    IN /\ req[p].pc = "update"
       /\ IF status = ""
            THEN /\ req' = [req EXCEPT ![p] = [body EXCEPT !.pc = "done", !.status = 400,
                                                           !.error = "Status is required"]]
                 /\ UNCHANGED attendance
          ELSE IF r.changes = 0
            THEN /\ req' = [req EXCEPT ![p] = [body EXCEPT !.pc = "done", !.status = 404,
                                                  !.error = "Attendance record not found"]]
                 /\ attendance' = r.rows
          ELSE /\ req' = [req EXCEPT ![p] = [body EXCEPT !.pc = "fetch"]]
               /\ attendance' = r.rows
       /\ UNCHANGED <<nextId, students, users, clock, issued, sessions>>

UpdateAttendance(p, statuses, noteses) ==
  \E id \in 1..MaxId, status \in statuses, notes \in noteses :
    LET r == UpdateAttendanceById(status, notes, id)
        body == [req[p] EXCEPT !.id = id, !.item.status = status, !.item.notes = notes]
    IN /\ req[p].pc = "update"
       /\ IF status = ""
            THEN /\ req' = [req EXCEPT ![p] = [body EXCEPT !.pc = "done", !.status = 400,
                                                           !.error = "Status is required"]]
                 /\ UNCHANGED attendance
          ELSE IF status \notin validStatuses
            THEN /\ req' = [req EXCEPT ![p] = [body EXCEPT !.pc = "done", !.status = 400,
                                                           !.error = "Invalid status."]]
                 /\ UNCHANGED attendance
          ELSE IF r.changes = 0
            THEN /\ req' = [req EXCEPT ![p] = [body EXCEPT !.pc = "done", !.status = 404,
                                                  !.error = "Attendance record not found"]]
                 /\ attendance' = r.rows
          ELSE /\ req' = [req EXCEPT ![p] = [body EXCEPT !.pc = "fetch"]]
               /\ attendance' = r.rows
       /\ UNCHANGED <<nextId, students, users, clock, issued, sessions>>

\* the updated record is fetched and returned
UpdateFetch(p) ==
  /\ req[p].pc = "fetch"
  /\ req' = [req EXCEPT ![p].pc = "done", ![p].status = 200,
                        ![p].existing = IF \E a \in attendance : a.id = req[p].id
                                          THEN req[p].id ELSE 0]
  /\ UNCHANGED <<attendance, nextId, students, users, clock, issued, sessions>>

(***************************************************************************)
(* deleteAttendance                                                        *)
(***************************************************************************)
DeleteAttendance(p) ==
  \E id \in 1..MaxId :
    LET r == DeleteAttendanceById(id)
    IN /\ req[p].pc = "delete"
       /\ attendance' = r.rows
       /\ req' = [req EXCEPT ![p].pc = "done", ![p].id = id,
                             ![p].status = IF r.changes = 0 THEN 404 ELSE 200,
                             ![p].error = IF r.changes = 0 THEN "Attendance record not found"
                                          ELSE ""]
       /\ UNCHANGED <<nextId, students, users, clock, issued, sessions>>

(***************************************************************************)
(* markAllPresent                                                          *)
(***************************************************************************)
\* validate the body and load the active students of the class
MarkLoad(p, classes, dates) ==
  \E class_id \in classes, date \in dates, notes \in InNotes :
    LET found == activeStudents(class_id)
        body == [req[p] EXCEPT !.class_id = class_id, !.item.date = date, !.item.notes = notes]
    IN /\ req[p].pc = "mark"
       /\ req' = [req EXCEPT ![p] =
                    IF class_id = 0 \/ date = 0
                      THEN [body EXCEPT !.pc = "done", !.status = 400,
                                        !.error = "class_id and date are required"]
                    ELSE IF Len(found) = 0
                      THEN [body EXCEPT !.pc = "done", !.status = 404,
                                        !.error = "No active students found in this class"]
                    ELSE [body EXCEPT !.pc = "mloop", !.todo = found]]
       /\ UNCHANGED <<attendance, nextId, students, users, clock, issued, sessions>>

\* an iteration up to the existence check for the next student
MarkSelect(p) ==
  LET student == req[p].todo[Len(req[p].results) + 1]
  IN /\ req[p].pc = "mloop"
     /\ Len(req[p].results) < Len(req[p].todo)
     /\ req' = [req EXCEPT ![p].pc = "mwrite", ![p].item.student_id = student,
                           ![p].existing = selectAttendance(student, req[p].item.date)]
     /\ UNCHANGED <<attendance, nextId, students, users, clock, issued, sessions>>

\* the write with the status of the body, which has none, for 'present'
MarkWriteBodyStatus(p) ==
  LET w == upsertWrite(req[p].existing, req[p].item,
                       [NoItem EXCEPT !.student_id = req[p].item.student_id])
  IN /\ req[p].pc = "mwrite"
     /\ w.id <= MaxId
     /\ attendance' = w.rows
     /\ nextId' = IF w.id # 0 THEN nextId + 1 ELSE nextId
     /\ req' = [req EXCEPT ![p].pc = "mloop", ![p].item.student_id = 0, ![p].existing = 0,
                           ![p].results = Append(@, w.entry)]
     /\ UNCHANGED <<students, users, clock, issued, sessions>>

\* the write of the iteration, with status 'present'
MarkWrite(p) ==
  LET w == upsertWrite(req[p].existing, [req[p].item EXCEPT !.status = "present"],
                       [NoItem EXCEPT !.student_id = req[p].item.student_id])
  IN /\ req[p].pc = "mwrite"
     /\ w.id <= MaxId
     /\ attendance' = w.rows
     /\ nextId' = IF w.id # 0 THEN nextId + 1 ELSE nextId
     /\ req' = [req EXCEPT ![p].pc = "mloop", ![p].item.student_id = 0, ![p].existing = 0,
                           ![p].results = Append(@, w.entry)]
     /\ UNCHANGED <<students, users, clock, issued, sessions>>

\* after the loop: res.json({ success: true, results, summary })
MarkFinish(p) ==
  /\ req[p].pc = "mloop"
  /\ Len(req[p].results) = Len(req[p].todo)
  /\ req' = [req EXCEPT ![p].pc = "done", ![p].status = 200,
                        ![p].summary = summary(req[p].results)]
  /\ UNCHANGED <<attendance, nextId, students, users, clock, issued, sessions>>

(***************************************************************************)
(* deleteStudent: the soft delete of a student                             *)
(***************************************************************************)
DeleteStudent(p) ==
  \E id \in InStudentIds \ {0} :
    /\ req[p].pc = "deleteStudent"
    /\ students' = [s \in DOMAIN students |->
                      IF s = id THEN [students[s] EXCEPT !.status = "inactive"]
                      ELSE students[s]]
    /\ req' = [req EXCEPT ![p].pc = "done", ![p].id = id,
                          ![p].status = IF id \in DOMAIN students THEN 200 ELSE 404,
                          ![p].error = IF id \in DOMAIN students THEN "" ELSE "Student not found"]
    /\ UNCHANGED <<attendance, nextId, users, clock, issued, sessions>>

(***************************************************************************)
(* A route guarded by requireAdmin, mounted behind authenticateToken or on *)
(* its own.                                                                *)
(***************************************************************************)
StartAdminRoute(p, hdrs, cookies) == Start(p, "admin", hdrs, cookies)

\* the route without authenticateToken in front of the guard
StartAdminRouteUnauthenticated(p) ==
  /\ req[p].pc = "idle"
  /\ req' = [req EXCEPT ![p] = [Idle EXCEPT !.pc = "requireAdmin", !.kind = "admin"]]
  /\ UNCHANGED <<attendance, nextId, students, users, clock, issued, sessions>>

RequireAdmin(p) ==
  LET status == requireAdmin(req[p].user)
  IN /\ req[p].pc = "requireAdmin"
     /\ req' = [req EXCEPT ![p] =
                  IF status = 401
                    THEN [@ EXCEPT !.pc = "done", !.status = 401,
                                   !.error = "Authentication required."]
                  ELSE IF status = 403
                    THEN [@ EXCEPT !.pc = "done", !.status = 403,
                                   !.error = "Admin access required."]
                  ELSE [@ EXCEPT !.pc = "next"]]
     /\ UNCHANGED <<attendance, nextId, students, users, clock, issued, sessions>>

\* a route guarded by requireTeacher behind authenticateToken
StartTeacherRoute(p, hdrs, cookies) == Start(p, "teacher", hdrs, cookies)

\* the guard reached with req.user as an earlier middleware left it
StartTeacherRouteAs(p, identities) ==
  \E user \in identities :
    /\ req[p].pc = "idle"
    /\ req' = [req EXCEPT ![p] = [Idle EXCEPT !.pc = "requireTeacher", !.kind = "teacher",
                                             !.user = user]]
    /\ UNCHANGED <<attendance, nextId, students, users, clock, issued, sessions>>

RequireTeacher(p) ==
  LET status == requireTeacher(req[p].user)
  IN /\ req[p].pc = "requireTeacher"
     /\ req' = [req EXCEPT ![p] =
                  IF status = 401
                    THEN [@ EXCEPT !.pc = "done", !.status = 401,
                                   !.error = "Authentication required."]
                  ELSE IF status = 403
                    THEN [@ EXCEPT !.pc = "done", !.status = 403,
                                   !.error = "Teacher access required."]
                  ELSE [@ EXCEPT !.pc = "next"]]
     /\ UNCHANGED <<attendance, nextId, students, users, clock, issued, sessions>>

\* a route with optionalAuth in front of its handler
StartOptionalRoute(p, hdrs, cookies) ==
  \E hdr \in hdrs, cookie \in cookies :
    /\ req[p].pc = "idle"
    /\ req' = [req EXCEPT ![p] = [Idle EXCEPT !.pc = "optionalAuth", !.kind = "optional",
                                             !.hdr = hdr, !.cookie = cookie]]
    /\ UNCHANGED <<attendance, nextId, students, users, clock, issued, sessions>>

OptionalAuth(p) ==
  /\ req[p].pc = "optionalAuth"
  /\ req' = [req EXCEPT ![p].pc = "next", ![p].user = optionalAuth(req[p].hdr)]
  /\ UNCHANGED <<attendance, nextId, students, users, clock, issued, sessions>>

\* the handler behind the guard
AdminHandler(p) ==
  /\ req[p].pc = "next"
  /\ req' = [req EXCEPT ![p].pc = "done", ![p].status = 200]
  /\ UNCHANGED <<attendance, nextId, students, users, clock, issued, sessions>>

(***************************************************************************)
(* The auth router: authenticateToken in front of each of these routes.    *)
(***************************************************************************)
StartVerify(p, hdrs, cookies) == Start(p, "verify", hdrs, cookies)

\* verifyToken: the claims of the attached user
VerifyToken(p) ==
  /\ req[p].pc = "verify"
  /\ req' = [req EXCEPT ![p].pc = "done", ![p].status = 200,
                        ![p].data = [userId |-> req[p].user.id,
                                     username |-> req[p].user.username,
                                     role |-> req[p].user.role]]
  /\ UNCHANGED <<attendance, nextId, students, users, clock, issued, sessions>>

\* login as a request in a slot: the response carries the user and the token
LoginRequest(p, username, password) ==
  \E r \in login(username, password) :
     /\ req[p].pc = "idle"
     /\ Cardinality(issued) < MaxLogins
     /\ IF r.status = 200
          THEN /\ issued' = issued \cup {r.token}
               /\ sessions' = sessions \cup {[userId |-> r.user.id,
                                               username |-> r.user.username,
                                               role |-> r.user.role]}
          ELSE UNCHANGED <<issued, sessions>>
     /\ req' = [req EXCEPT ![p] = [Idle EXCEPT !.pc = "done", !.kind = "login",
                                              !.status = r.status, !.data = r.user]]
     /\ UNCHANGED <<attendance, nextId, students, users, clock>>

StartProfile(p, hdrs, cookies) == Start(p, "profile", hdrs, cookies)

\* getProfile: req.user without password_hash
GetProfile(p) ==
  /\ req[p].pc = "profile"
  /\ req' = [req EXCEPT ![p].pc = "done", ![p].status = 200,
                        ![p].data = withoutPasswordHash(req[p].user)]
  /\ UNCHANGED <<attendance, nextId, students, users, clock, issued, sessions>>

StartUpdateProfile(p, hdrs, cookies) == Start(p, "updateProfile", hdrs, cookies)

\* updateProfile up to the UPDATE: the body is validated and the email looked up
UpdateProfileCheck(p, names, emails) ==
  \E full_name \in names, email \in emails :
    LET body == [req[p] EXCEPT !.form.full_name = full_name, !.form.email = email]
    IN /\ req[p].pc = "updateProfile"
       /\ req' = [req EXCEPT ![p] =
                    IF full_name = "" /\ email = ""
                      THEN [body EXCEPT !.pc = "done", !.status = 400,
                              !.error = "At least one field (full_name or email) is required"]
                    ELSE IF email # "" /\ \E u \in users : u.email = email /\ u.id # req[p].user.id
                      THEN [body EXCEPT !.pc = "done", !.status = 409,
                              !.error = "Email address is already in use"]
                    ELSE [body EXCEPT !.pc = "updateProfileWrite"]]
       /\ UNCHANGED <<attendance, nextId, students, users, clock, issued, sessions>>

\* UPDATE users SET ... WHERE id = ?, under UNIQUE(email), then the row is fetched
\* with its columns named and returned
UpdateProfileWrite(p) ==
  LET f == req[p].form
      id == req[p].user.id
      hit == {u \in users : u.id = id}
      changed == {[u EXCEPT !.full_name = IF f.full_name # "" THEN f.full_name ELSE @,
                            !.email = IF f.email # "" THEN f.email ELSE @] : u \in hit}
      taken == f.email # "" /\ hit # {} /\ \E u \in users : u.email = f.email /\ u.id # id
  IN /\ req[p].pc = "updateProfileWrite"
     /\ users' = IF taken THEN users ELSE (users \ hit) \cup changed
     /\ req' = [req EXCEPT ![p] =
                  IF taken
                    THEN [@ EXCEPT !.pc = "done", !.status = 500,
                                   !.error = "Failed to update profile"]
                    ELSE [@ EXCEPT !.pc = "done", !.status = 200,
                            !.data = IF changed = {} THEN NoUser
                                     ELSE userColumns(CHOOSE u \in changed : TRUE)]]
     /\ UNCHANGED <<attendance, nextId, students, clock, issued, sessions>>

StartRegister(p, hdrs, cookies) == Start(p, "register", hdrs, cookies)

\* register without the check of the caller's role
RegisterAnyCaller(p, forms) ==
  \E form \in forms :
    LET role == IF form.role = "" THEN "teacher" ELSE form.role
        body == [req[p] EXCEPT !.form = [form EXCEPT !.role = role]]
    IN /\ req[p].pc = "register"
       /\ req' = [req EXCEPT ![p] =
                    IF form.username = "" \/ form.email = "" \/ form.password = ""
                            \/ form.full_name = ""
                      THEN [body EXCEPT !.pc = "done", !.status = 400,
                              !.error = "Username, email, password, and full name are required"]
                    ELSE IF Len(form.password) < MinPasswordLength
                      THEN [body EXCEPT !.pc = "done", !.status = 400,
                              !.error = "Password must be at least 6 characters long"]
                    ELSE IF role \notin {"admin", "teacher"}
                      THEN [body EXCEPT !.pc = "done", !.status = 400,
                              !.error = "Role must be either admin or teacher"]
                    ELSE IF \E u \in users : u.username = form.username \/ u.email = form.email
                      THEN [body EXCEPT !.pc = "done", !.status = 409,
                              !.error = "Username or email already exists"]
                    ELSE [body EXCEPT !.pc = "registerWrite"]]
       /\ UNCHANGED <<attendance, nextId, students, users, clock, issued, sessions>>

\* register up to the INSERT: the role of the caller, the body, the lookup of the
\* username and the email
Register(p, forms) ==
  \E form \in forms :
    LET role == IF form.role = "" THEN "teacher" ELSE form.role
        body == [req[p] EXCEPT !.form = [form EXCEPT !.role = role]]
    IN /\ req[p].pc = "register"
       /\ req' = [req EXCEPT ![p] =
                    IF req[p].user.role # "admin"
                      THEN [@ EXCEPT !.pc = "done", !.status = 403,
                              !.error = "Admin access required to create new users"]
                    ELSE IF form.username = "" \/ form.email = "" \/ form.password = ""
                            \/ form.full_name = ""
                      THEN [body EXCEPT !.pc = "done", !.status = 400,
                              !.error = "Username, email, password, and full name are required"]
                    ELSE IF Len(form.password) < MinPasswordLength
                      THEN [body EXCEPT !.pc = "done", !.status = 400,
                              !.error = "Password must be at least 6 characters long"]
                    ELSE IF role \notin {"admin", "teacher"}
                      THEN [body EXCEPT !.pc = "done", !.status = 400,
                              !.error = "Role must be either admin or teacher"]
                    ELSE IF \E u \in users : u.username = form.username \/ u.email = form.email
                      THEN [body EXCEPT !.pc = "done", !.status = 409,
                              !.error = "Username or email already exists"]
                    ELSE [body EXCEPT !.pc = "registerWrite"]]
       /\ UNCHANGED <<attendance, nextId, students, users, clock, issued, sessions>>

\* the INSERT into a users table without its UNIQUE constraints
RegisterWriteUnconstrained(p) ==
  LET f == req[p].form
      id == 1 + CHOOSE m \in {u.id : u \in users} : \A u \in users : u.id <= m
      row == [id |-> id, username |-> f.username, email |-> f.email,
              password_hash |-> <<"bcrypt", f.password>>, role |-> f.role,
              full_name |-> f.full_name]
  IN /\ req[p].pc = "registerWrite"
     /\ Cardinality(users) < MaxUsers
     /\ users' = users \cup {row}
     /\ req' = [req EXCEPT ![p] = [@ EXCEPT !.pc = "done", !.status = 201,
                                            !.data = userColumns(row)]]
     /\ UNCHANGED <<attendance, nextId, students, clock, issued, sessions>>

\* INSERT INTO users under UNIQUE(username) and UNIQUE(email); the id is the next
\* of AUTOINCREMENT; the new row is fetched with its columns named and returned
RegisterWrite(p) ==
  LET f == req[p].form
      id == 1 + CHOOSE m \in {u.id : u \in users} : \A u \in users : u.id <= m
      row == [id |-> id, username |-> f.username, email |-> f.email,
              password_hash |-> <<"bcrypt", f.password>>, role |-> f.role,
              full_name |-> f.full_name]
      taken == \E u \in users : u.username = f.username \/ u.email = f.email
  IN /\ req[p].pc = "registerWrite"
     /\ Cardinality(users) < MaxUsers
     /\ users' = IF taken THEN users ELSE users \cup {row}
     /\ req' = [req EXCEPT ![p] =
                  IF taken
                    THEN [@ EXCEPT !.pc = "done", !.status = 500,
                                   !.error = "Failed to create user"]
                    ELSE [@ EXCEPT !.pc = "done", !.status = 201,
                                   !.data = userColumns(row)]]
     /\ UNCHANGED <<attendance, nextId, students, clock, issued, sessions>>

\* the server is started on a new database file: createTables and
\* insertDefaultData run again, the sessions of the memory store are gone, the
\* tokens clients hold still carry a signature made with JWT_SECRET
DatabaseRecreated ==
  /\ \A p \in Procs : req[p].pc = "idle"
  /\ \E s \in SeedStatuses :
       attendance' = {[id |-> 1, student_id |-> 1, date |-> Today, status |-> s, notes |-> ""]}
  /\ nextId' = 2
  /\ students' = (1 :> [class_id |-> 1, status |-> "active"])
                   @@ (2 :> [class_id |-> 1, status |-> "active"])
  /\ users' = {AdminRow}
  /\ sessions' = {}
  /\ UNCHANGED <<clock, issued, req>>

\* the response has been sent and the request is over
Respond(p) ==
  /\ req[p].pc = "done"
  /\ req' = [req EXCEPT ![p] = Idle]
  /\ UNCHANGED <<attendance, nextId, students, users, clock, issued, sessions>>

(***************************************************************************)
(* Specifications.                                                         *)
(***************************************************************************)
Handle(p, maxn, items, statuses, noteses, classes, dates) ==
  \/ Authenticate(p)
  \/ BulkRecordAttendance(p)
  \/ RecordBody(p, maxn)
  \/ RecordInvalid(p, items)
  \/ RecordSelect(p, items)
  \/ RecordWrite(p)
  \/ RecordFinish(p)
  \/ UpdateAttendance(p, statuses, noteses)
  \/ UpdateFetch(p)
  \/ DeleteAttendance(p)
  \/ MarkLoad(p, classes, dates)
  \/ MarkSelect(p)
  \/ MarkWrite(p)
  \/ MarkFinish(p)
  \/ Respond(p)

Arrive(p, hdrs, cookies) ==
  \/ StartRecord(p, hdrs, cookies)
  \/ StartBulk(p, hdrs, cookies)
  \/ StartUpdate(p, hdrs, cookies)
  \/ StartDelete(p, hdrs, cookies)
  \/ StartMarkAll(p, hdrs, cookies)

LoginNames == {"", "admin", "teacher", "admin@school-os.local", "nobody"}
LoginPasswords == {"", "admin", "secret"}

\* Spec: requests of several clients, interleaved at their awaits
ConcHeaders == {NoHeader} \cup [scheme : {"Bearer"}, token : issued]
ConcItems == {i \in Items : i.student_id \in {0, 1, 2} /\ i.date = Today /\ i.status = "present"}

Next ==
  \/ Login("admin", "admin")
  \/ \E p \in Procs :
       \/ Arrive(p, ConcHeaders, {NoSession})
       \/ Handle(p, MaxConcBatch, ConcItems, {"", "absent"}, InNotes, {1}, {Today})

Spec == Init /\ [][Next]_vars

\* SpecSeq: one client whose requests follow one another, with every body
\* the records of a body in SpecSeq: one missing each field, one for a student
\* with a record today, one for a student without, one for no student
SeqItems ==
  {i \in Items : \/ missingFields(i) /\ i.student_id + i.date # 0
                 \/ ~missingFields(i) /\ i.date = Today
                      /\ i.status = (IF i.student_id = 2 THEN "absent" ELSE "present")}

NextSeq ==
  \/ Login("admin", "admin")
  \/ Arrive(1, ConcHeaders, {NoSession})
  \/ StartDeleteStudent(1, ConcHeaders, {NoSession})
  \/ DeleteStudent(1)
  \/ Handle(1, MaxBatch, SeqItems, {"", "present", "tardy"}, InNotes, InClassIds, InDates)

SpecSeq == Init /\ [][NextSeq]_vars

\* SpecAuth: one client with every credential, over the whole lifetime of a token
NextAuth ==
  \/ \E u \in LoginNames, w \in LoginPasswords : Login(u, w)
  \/ Tick
  \/ Arrive(1, Headers, Cookies)
  \/ Handle(1, MaxConcBatch, ConcItems, {"", "absent"}, InNotes, {1}, {Today})

SpecAuth == Init /\ [][NextAuth]_vars

\* SpecTwice: a client sends a request of at most one record in slot 1, waits for
\* the answer, sends a second one in slot 2 and waits for its answer
NextTwice ==
  \/ Login("admin", "admin")
  \/ (req[2].pc = "idle" /\ StartRecord(1, ConcHeaders, {NoSession}))
  \/ (req[1].pc = "done" /\ StartRecord(2, ConcHeaders, {NoSession}))
  \/ (req[1].pc = "idle" /\ Respond(2))
  \/ Respond(1)
  \/ \E p \in Procs :
       \/ Authenticate(p)
       \/ RecordBody(p, 1)
       \/ RecordInvalid(p, Items)
       \/ RecordSelect(p, Items)
       \/ RecordWrite(p)
       \/ RecordFinish(p)

SpecTwice == Init /\ [][NextTwice]_vars

\* SpecGuard: requests to a route guarded by requireAdmin
NextGuard ==
  \/ \E u \in LoginNames, w \in LoginPasswords : Login(u, w)
  \/ Tick
  \/ StartAdminRoute(1, Headers, Cookies)
  \/ StartAdminRouteUnauthenticated(1)
  \/ Authenticate(1)
  \/ RequireAdmin(1)
  \/ AdminHandler(1)
  \/ Respond(1)

SpecGuard == Init /\ [][NextGuard]_vars

\* SpecStatus: one client sending statuses and notes of every sort
StatusItems == [student_id : {0, 1, 2}, date : {Today}, status : {"present", "tardy"},
                notes : InNotes]

NextStatus ==
  \/ Login("admin", "admin")
  \/ Arrive(1, ConcHeaders, {NoSession})
  \/ Handle(1, MaxConcBatch, StatusItems, {"", "late", "tardy"}, {"", "sick"}, {1}, {Today})

SpecStatus == Init /\ [][NextStatus]_vars

\* SpecIsolate: a request recording several students, or marking a class, while
\* another client records one student
IsolateItems == {i \in Items : i.date = Today /\ i.status = "present" /\ ~missingFields(i)}

NextIsolate ==
  \/ Login("admin", "admin")
  \/ StartRecord(1, ConcHeaders, {NoSession})
  \/ StartMarkAll(1, ConcHeaders, {NoSession})
  \/ StartRecord(2, ConcHeaders, {NoSession})
  \/ RecordBody(1, MaxBatch)
  \/ RecordBody(2, 1)
  \/ MarkLoad(1, {1}, {Today})
  \/ MarkSelect(1)
  \/ MarkWrite(1)
  \/ MarkFinish(1)
  \/ \E p \in Procs :
       \/ Authenticate(p)
       \/ RecordSelect(p, IsolateItems)
       \/ RecordWrite(p)
       \/ RecordFinish(p)
       \/ Respond(p)

SpecIsolate == Init /\ [][NextIsolate]_vars

\* SpecOrphan: tokens that outlive the users table they were issued from
NextOrphan ==
  \/ \E u \in LoginNames, w \in LoginPasswords : Login(u, w)
  \/ DatabaseRecreated
  \/ StartVerify(1, Headers, Cookies)
  \/ Authenticate(1)
  \/ VerifyToken(1)
  \/ Respond(1)

SpecOrphan == Init /\ [][NextOrphan]_vars

\* SpecRole: requests to a route guarded by requireTeacher; the users table has
\* no constraint on role, so the guard is also run on a user with another role
Identities ==
  {NoUser} \cup {selectUserById(u.id) : u \in users}
  \cup {[id |-> 3, username |-> "parent", email |-> "parent@school-os.local",
         role |-> "parent", full_name |-> "Parent"]}

NextRole ==
  \/ \E u \in LoginNames, w \in LoginPasswords : Login(u, w)
  \/ StartTeacherRoute(1, Headers, Cookies)
  \/ StartTeacherRouteAs(1, Identities)
  \/ Authenticate(1)
  \/ RequireTeacher(1)
  \/ AdminHandler(1)
  \/ Respond(1)

SpecRole == Init /\ [][NextRole]_vars

\* SpecOptional: requests with every credential to a route behind optionalAuth
NextOptional ==
  \/ \E u \in LoginNames, w \in LoginPasswords : Login(u, w)
  \/ Tick
  \/ DatabaseRecreated
  \/ StartOptionalRoute(1, Headers, Cookies)
  \/ OptionalAuth(1)
  \/ AdminHandler(1)
  \/ Respond(1)

SpecOptional == Init /\ [][NextOptional]_vars

\* SpecAccount: one client on the auth router and on a route behind optionalAuth
RegisterForms ==
  [username : {"", "teacher", "newbie"}, email : {"newbie@school-os.local"},
   password : {"short", "longenough"}, full_name : {"New User"}, role : {"", "parent"}]

NextAccount ==
  \/ \E u \in LoginNames, w \in LoginPasswords : LoginRequest(1, u, w)
  \/ StartProfile(1, ConcHeaders, Cookies)
  \/ StartUpdateProfile(1, ConcHeaders, Cookies)
  \/ StartRegister(1, ConcHeaders, Cookies)
  \/ StartVerify(1, ConcHeaders, Cookies)
  \/ StartOptionalRoute(1, ConcHeaders, Cookies)
  \/ Authenticate(1)
  \/ GetProfile(1)
  \/ UpdateProfileCheck(1, {"", "Renamed"},
                        {"", "admin@school-os.local", "other@school-os.local"})
  \/ UpdateProfileWrite(1)
  \/ Register(1, RegisterForms)
  \/ RegisterWrite(1)
  \/ VerifyToken(1)
  \/ OptionalAuth(1)
  \/ AdminHandler(1)
  \/ Respond(1)

SpecAccount == Init /\ [][NextAccount]_vars

\* SpecExpiry: the token of a login presented hour after hour
NextExpiry ==
  \/ \E u \in LoginNames, w \in LoginPasswords : Login(u, w)
  \/ TickHour
  \/ StartVerify(1, ConcHeaders, {NoSession})
  \/ Authenticate(1)
  \/ VerifyToken(1)
  \/ Respond(1)

SpecExpiry == Init /\ [][NextExpiry]_vars

\* SpecBulk: one client sending bodies to POST / in slot 1 and to POST /bulk in
\* slot 2, one request at a time
NextBulk ==
  \/ Login("admin", "admin")
  \/ (req[2].pc = "idle" /\ StartRecord(1, ConcHeaders, {NoSession}))
  \/ (req[1].pc = "idle" /\ StartBulk(2, ConcHeaders, {NoSession}))
  \/ BulkRecordAttendance(2)
  \/ \E p \in Procs :
       \/ Authenticate(p)
       \/ RecordBody(p, MaxBatch)
       \/ RecordInvalid(p, SeqItems)
       \/ RecordSelect(p, SeqItems)
       \/ RecordWrite(p)
       \/ RecordFinish(p)
       \/ Respond(p)

SpecBulk == Init /\ [][NextBulk]_vars

\* SpecUnique: two clients registering users and changing their profile, their
\* requests interleaved at the awaits
UniqueForms ==
  [username : {"newbie", "teacher"}, email : {"newbie@school-os.local", "other@school-os.local"},
   password : {"longenough"}, full_name : {"New User"}, role : {""}]

UniqueEmails == {"newbie@school-os.local", "teacher@school-os.local"}

NextUnique ==
  \/ \E u \in {"admin", "teacher"}, w \in {"admin", "secret"} : Login(u, w)
  \/ \E p \in Procs :
       \/ StartRegister(p, ConcHeaders, {NoSession})
       \/ StartUpdateProfile(p, ConcHeaders, {NoSession})
       \/ Authenticate(p)
       \/ Register(p, UniqueForms)
       \/ RegisterWrite(p)
       \/ UpdateProfileCheck(p, {""}, UniqueEmails)
       \/ UpdateProfileWrite(p)
       \/ Respond(p)

SpecUnique == Init /\ [][NextUnique]_vars

\* SpecLogout: a client that logs in, logs out and presents the credentials of
\* its logins, the cookie of a destroyed session included
sessionCookie(token) ==
  [userId |-> token.userId, username |-> token.username, role |-> token.role]

LoginCookies == {NoSession} \cup {sessionCookie(t) : t \in issued}

NextLogout ==
  \/ \E u \in LoginNames, w \in LoginPasswords : Login(u, w)
  \/ Logout(LoginCookies)
  \/ TickHour
  \/ StartVerify(1, ConcHeaders, LoginCookies)
  \/ Authenticate(1)
  \/ VerifyToken(1)
  \/ Respond(1)

SpecLogout == Init /\ [][NextLogout]_vars

\* SpecLost: a client recording one student or marking a class in slot 1 while
\* another client deletes attendance records in slot 2
NextLost ==
  \/ Login("admin", "admin")
  \/ StartRecord(1, ConcHeaders, {NoSession})
  \/ StartMarkAll(1, ConcHeaders, {NoSession})
  \/ StartDelete(2, ConcHeaders, {NoSession})
  \/ RecordBody(1, 1)
  \/ RecordSelect(1, IsolateItems)
  \/ RecordWrite(1)
  \/ RecordFinish(1)
  \/ MarkLoad(1, {1}, {Today})
  \/ MarkSelect(1)
  \/ MarkWrite(1)
  \/ MarkFinish(1)
  \/ DeleteAttendance(2)
  \/ \E p \in Procs :
       \/ Authenticate(p)
       \/ Respond(p)

SpecLost == Init /\ [][NextLost]_vars

\* SpecStored: a client with a token or a session cookie on the auth router,
\* an administrator registering users, and the server restarted on a new
\* database file, where the ids of users are handed out again
StoredForms ==
  [username : {"newbie"}, email : {"newbie@school-os.local"},
   password : {"longenough"}, full_name : {"New User"}, role : {"", "admin"}]

NextStored ==
  \/ \E u \in {"admin", "teacher"}, w \in {"admin", "secret"} : Login(u, w)
  \/ DatabaseRecreated
  \/ StartVerify(1, ConcHeaders, Cookies)
  \/ StartRegister(1, ConcHeaders, Cookies)
  \/ Authenticate(1)
  \/ VerifyToken(1)
  \/ Register(1, StoredForms)
  \/ RegisterWrite(1)
  \/ Respond(1)

SpecStored == Init /\ [][NextStored]_vars

\* SpecFrame: a client recording single students and marking classes present in
\* slot 1 while another client deactivates students in slot 2; of the seeded
\* students, two of the first class and one of the second
InitFrame ==
  /\ \E st \in SeedStatuses :
       attendance = {[id |-> 1, student_id |-> 1, date |-> Today, status |-> st, notes |-> ""]}
  /\ nextId = 2
  /\ students = (1 :> [class_id |-> 1, status |-> "active"])
                  @@ (2 :> [class_id |-> 1, status |-> "active"])
                  @@ (3 :> [class_id |-> 2, status |-> "active"])
  /\ users = {AdminRow, TeacherRow}
  /\ clock = 0
  /\ issued = {}
  /\ sessions = {}
  /\ req = [p \in Procs |-> Idle]

FrameItems == {i \in Items : i.status = "absent" /\ ~missingFields(i)}

NextFrame ==
  \/ Login("admin", "admin")
  \/ StartRecord(1, ConcHeaders, {NoSession})
  \/ StartMarkAll(1, ConcHeaders, {NoSession})
  \/ StartDeleteStudent(2, ConcHeaders, {NoSession})
  \/ RecordBody(1, 1)
  \/ RecordSelect(1, FrameItems)
  \/ RecordWrite(1)
  \/ RecordFinish(1)
  \/ MarkLoad(1, InClassIds \ {0}, Dates)
  \/ MarkSelect(1)
  \/ MarkWrite(1)
  \/ MarkFinish(1)
  \/ DeleteStudent(2)
  \/ \E p \in Procs :
       \/ Authenticate(p)
       \/ Respond(p)

SpecFrame == InitFrame /\ [][NextFrame]_vars

\* SpecName: an administrator registering users and changing the email of the
\* profile, with names and emails other users have in the other column
NameForms ==
  [username : {"newbie", "admin@school-os.local"}, email : {"newbie@school-os.local"},
   password : {"longenough"}, full_name : {"New User"}, role : {""}]

NameEmails == {"teacher", "other@school-os.local"}

NextName ==
  \/ \E u \in {"admin", "teacher"}, w \in {"admin", "secret"} : Login(u, w)
  \/ StartRegister(1, ConcHeaders, {NoSession})
  \/ StartUpdateProfile(1, ConcHeaders, {NoSession})
  \/ Authenticate(1)
  \/ Register(1, NameForms)
  \/ RegisterWrite(1)
  \/ UpdateProfileCheck(1, {"", "Renamed"}, NameEmails)
  \/ UpdateProfileWrite(1)
  \/ Respond(1)

SpecName == Init /\ [][NextName]_vars

(***************************************************************************)
(* Properties.                                                             *)
(***************************************************************************)
recordsOf(rows, student_id, date) ==
  {a \in rows : a.student_id = student_id /\ a.date = date}

lastEntry(r) == r.results[Len(r.results)]

\* C1: in every reachable state of interleaved record, bulk, mark-all-present,
\* update and delete requests the attendance table holds at most one record for
\* each (student_id, date).
C1_OneRecordPerStudentAndDate ==
  \A a, b \in attendance : (a.student_id = b.student_id /\ a.date = b.date) => a = b

\* two requests have both seen no record for the same student and date, and the
\* insert of one of them has taken effect while the other is still to write
C1_Witness ==
  \E p, q \in Procs :
    /\ p # q
    /\ req[p].pc \in {"write", "mwrite"} /\ req[p].existing = 0
    /\ req[q].pc \in {"loop", "mloop", "done"} /\ req[q].results # <<>>
    /\ lastEntry(req[q]).action = "created"
    /\ \E a \in attendance : /\ a.id = lastEntry(req[q]).id
                             /\ a.student_id = req[p].item.student_id
                             /\ a.date = req[p].item.date

\* C3: when a recordAttendance request that saw no record for its student and
\* date comes to insert after the insert of a concurrent request for the same
\* student and date has taken effect, its insert is rejected: the item is pushed
\* as a failure with the uniqueness violation, and the table is left with the one
\* record, unchanged.
C3_RaceLoserFails ==
  [][\A p \in Procs :
       (/\ req[p].pc = "write" /\ req'[p].pc = "loop"
        /\ req[p].existing = 0
        /\ recordsOf(attendance, req[p].item.student_id, req[p].item.date) # {})
       => /\ attendance' = attendance
          /\ Cardinality(recordsOf(attendance', req[p].item.student_id, req[p].item.date)) = 1
          /\ lastEntry(req'[p]) = Failed(UniqueError, req[p].item)]_vars

\* the loser of the race has been answered with its failed item
C3_Witness ==
  \E p \in Procs :
    /\ req[p].pc = "done" /\ req[p].kind = "record" /\ req[p].results # <<>>
    /\ lastEntry(req[p]).error = UniqueError
    /\ Cardinality(recordsOf(attendance, lastEntry(req[p]).data.student_id,
                             lastEntry(req[p]).data.date)) = 1

\* C6: deleteAttendance answers 404 and leaves the table unchanged when no record
\* has the id; otherwise it removes exactly the record with that id.
C6_DeleteById ==
  [][\A p \in Procs :
       (req[p].pc = "delete" /\ req'[p].pc = "done")
       => LET id == req'[p].id
          IN IF \E a \in attendance : a.id = id
               THEN /\ req'[p].status = 200
                    /\ ~ \E a \in attendance' : a.id = id
                    /\ attendance' = {a \in attendance : a.id # id}
               ELSE /\ req'[p].status = 404
                    /\ attendance' = attendance]_vars

\* one delete has removed a record and another found none with its id, while
\* another record is still in the table
C6_Witness ==
  \E p, q \in Procs :
    /\ req[p].pc = "done" /\ req[p].kind = "delete" /\ req[p].status = 200
    /\ req[q].pc = "done" /\ req[q].kind = "delete" /\ req[q].status = 404
    /\ attendance # {}

\* the token authenticateToken verifies for a request
usedToken(r) ==
  IF bearerToken(r.hdr) # NoToken THEN bearerToken(r.hdr) ELSE sessionToken(r.cookie)

\* C7: a correctly signed token past its expiry is answered 401 'Token expired.
\* Please login again.', a token with a signature that does not match or that is
\* not a token at all is answered 401 'Invalid token.', and neither answer is
\* given for the other cause.
C7_ExpiredAndInvalidDistinct ==
  [][\A p \in Procs :
       (req[p].pc = "auth" /\ req'[p].pc # "auth")
       => LET t == usedToken(req[p])
              expired == req'[p].status = 401
                           /\ req'[p].error = "Token expired. Please login again."
              invalid == req'[p].status = 401 /\ req'[p].error = "Invalid token."
          IN /\ expired <=> (t.sig = "ok" /\ clock >= t.exp)
             /\ invalid <=> (t.sig \in {"bad", "malformed"})]_vars

\* a token of a login has been rejected as expired
C7_Witness ==
  \E p \in Procs :
    /\ req[p].pc = "done" /\ req[p].error = "Token expired. Please login again."
    /\ req[p].hdr.token \in issued

\* C9: on every attendance endpoint, a request that authenticateToken rejects is
\* answered 401 by the middleware while the tables are left as they are, and from
\* there the request only ends: no step of a handler is ever taken for it.
C9_RejectedBeforeHandler ==
  [][\A p \in Procs :
       /\ (req[p].pc = "auth" /\ req'[p].pc # "auth"
           /\ authenticateToken(req[p].hdr, req[p].cookie).status # 0)
          => /\ req'[p].pc = "done" /\ req'[p].status = 401
             /\ req'[p].user = NoUser
             /\ attendance' = attendance /\ nextId' = nextId /\ students' = students
       /\ (req[p].pc = "done" /\ req'[p].pc # "done") => req'[p] = Idle]_vars

\* a request to delete a record that is in the table has been rejected
C9_Witness ==
  \E p \in Procs :
    /\ req[p].pc = "done" /\ req[p].status = 401 /\ req[p].kind = "delete"
    /\ attendance # {}

\* C10 as stated: a request carrying the token of a login, before the token
\* expires, passes authenticateToken as the user who logged in, and a request
\* with no Authorization header is answered 401.
C10_NoHeaderAlways401 ==
  [][\A p \in Procs :
       (req[p].pc = "auth" /\ req'[p].pc # "auth")
       => /\ (req[p].hdr.scheme = "Bearer" /\ req[p].hdr.token \in issued
              /\ clock < req[p].hdr.token.exp)
             => (req'[p].pc # "done" /\ req'[p].user.id = req[p].hdr.token.userId)
          /\ (req[p].hdr = NoHeader)
             => (req'[p].pc = "done" /\ req'[p].status = 401)]_vars

\* C10 amended: a request carrying the token of a login, before the token
\* expires, passes authenticateToken as the user who logged in, and a request
\* with no Authorization header and no session of a login is answered 401.
C10_NoHeaderNoSession401 ==
  [][\A p \in Procs :
       (req[p].pc = "auth" /\ req'[p].pc # "auth")
       => /\ (req[p].hdr.scheme = "Bearer" /\ req[p].hdr.token \in issued
              /\ clock < req[p].hdr.token.exp)
             => (req'[p].pc # "done" /\ req'[p].user.id = req[p].hdr.token.userId)
          /\ (req[p].hdr = NoHeader /\ sessionOf(req[p].cookie).userId = 0)
             => (req'[p].pc = "done" /\ req'[p].status = 401)]_vars

\* after the login of the administrator a request with the returned token is in
\* its handler, with the administrator attached
C10_Witness ==
  \E p \in Procs :
    /\ req[p].pc \notin {"idle", "auth", "done"}
    /\ req[p].hdr.scheme = "Bearer" /\ req[p].hdr.token \in issued
    /\ req[p].user.username = "admin" /\ req[p].cookie = NoSession

\* the entries of a request's results, as a set
entriesOf(r) == {r.results[i] : i \in 1..Len(r.results)}

\* C2: when a request recording (student_id, date, s1) for an existing student
\* has been answered and a request recording the same student and date with
\* another status s2 is run next and answered, the table holds exactly one record
\* for the student and date, with status s2; the second request reports
\* 'updated', for the record the first one reported; and a request that writes
\* when the table has no record for its student and date reports 'created'.
C2_SecondStatusWins ==
  /\ [](\A e1 \in entriesOf(req[1]), e2 \in entriesOf(req[2]) :
          (/\ req[1].pc = "done" /\ req[2].pc = "done"
           /\ req[1].n = 1 /\ req[2].n = 1
           /\ ~missingFields(e1.data) /\ ~missingFields(e2.data)
           /\ e1.data.student_id \in DOMAIN students
           /\ e1.data.student_id = e2.data.student_id /\ e1.data.date = e2.data.date
           /\ e1.data.status # e2.data.status)
          => /\ e1.success /\ e1.action \in {"created", "updated"}
             /\ e2.success /\ e2.action = "updated" /\ e2.id = e1.id
             /\ \E a \in attendance :
                  /\ recordsOf(attendance, e2.data.student_id, e2.data.date) = {a}
                  /\ a.status = e2.data.status /\ a.id = e2.id)
  /\ [][\A p \in Procs :
          (/\ req[p].pc = "write" /\ req'[p].pc = "loop"
           /\ req[p].item.student_id \in DOMAIN students
           /\ recordsOf(attendance, req[p].item.student_id, req[p].item.date) = {})
          => lastEntry(req'[p]).action = "created"]_vars

\* the first request created the record and the second one updated it
C2_Witness ==
  /\ req[1].pc = "done" /\ req[2].pc = "done"
  /\ Len(req[1].results) = 1 /\ Len(req[2].results) = 1
  /\ req[1].results[1].action = "created" /\ req[2].results[1].action = "updated"
  /\ req[1].results[1].data.student_id = req[2].results[1].data.student_id
  /\ req[1].results[1].data.date = req[2].results[1].data.date
  /\ req[1].results[1].data.status # req[2].results[1].data.status

C5_MarkAllPresent ==
  \A p \in Procs :
    (req[p].pc = "done" /\ req[p].kind = "markAll" /\ req[p].status = 200)
    => LET class == {s \in DOMAIN students : /\ students[s].class_id = req[p].class_id
                                             /\ students[s].status = "active"}
           marked == {a \in attendance : a.student_id \in class /\ a.date = req[p].item.date}
       IN /\ Cardinality(marked) = Cardinality(class)
          /\ Len(req[p].results) = Cardinality(class)
          /\ \A s \in class : \E a \in marked : a.student_id = s
          /\ \A a \in marked : a.status = "present"

\* a class of two students has been marked: the record of one was updated, the
\* record of the other created
C5_Witness ==
  \E p \in Procs :
    /\ req[p].pc = "done" /\ req[p].kind = "markAll" /\ req[p].status = 200
    /\ Len(req[p].results) = 2
    /\ req[p].results[1].action = "updated" /\ req[p].results[2].action = "created"

\* C8: requireAdmin answers 401 when the request has no user attached, 403 when
\* the attached user's role is not 'admin', and calls next() exactly when the
\* role is 'admin'.
C8_RequireAdmin ==
  [][\A p \in Procs :
       (req[p].pc = "requireAdmin" /\ req'[p].pc # "requireAdmin")
       => /\ (req[p].user = NoUser) <=> (req'[p].pc = "done" /\ req'[p].status = 401)
          /\ (req[p].user # NoUser /\ req[p].user.role # "admin")
               <=> (req'[p].pc = "done" /\ req'[p].status = 403)
          /\ (req[p].user.role = "admin") <=> (req'[p].pc = "next")]_vars

\* an authenticated teacher has been answered 403
C8_Witness ==
  \E p \in Procs :
    /\ req[p].pc = "done" /\ req[p].kind = "admin" /\ req[p].status = 403
    /\ req[p].user.role = "teacher"

\* C11: every stored attendance record has a status among present, absent, late
\* and excused.
C11_StoredStatusValid == \A a \in attendance : a.status \in validStatuses

\* C12: updateAttendance answers 400 and leaves the table as it is when the
\* status is missing or not one of the four; with a valid status it answers 404
\* and leaves the table as it is when no record has the id, and otherwise sets
\* the status and the notes of the record with the id, of no other record, and
\* goes on to answer 200.
C12_UpdateValidatesFirst ==
  [][\A p \in Procs :
       /\ (req[p].pc = "update" /\ req'[p].pc # "update")
          => LET id == req'[p].id
                 status == req'[p].item.status
                 notes == req'[p].item.notes
                 hit == {a \in attendance : a.id = id}
             IN /\ status \notin validStatuses
                   => /\ req'[p].pc = "done" /\ req'[p].status = 400
                      /\ attendance' = attendance
                /\ (status \in validStatuses /\ hit = {})
                   => /\ req'[p].pc = "done" /\ req'[p].status = 404
                      /\ attendance' = attendance
                /\ (status \in validStatuses /\ hit # {})
                   => /\ req'[p].pc = "fetch"
                      /\ attendance' = (attendance \ hit)
                           \cup {[a EXCEPT !.status = status, !.notes = notes] : a \in hit}
       /\ (req[p].pc = "fetch" /\ req'[p].pc # "fetch")
          => (req'[p].pc = "done" /\ req'[p].status = 200 /\ attendance' = attendance)]_vars

\* an update has been answered 200 and the record carries the new status and notes
C12_Witness ==
  \E p \in Procs, a \in attendance :
    /\ req[p].pc = "done" /\ req[p].kind = "update" /\ req[p].status = 200
    /\ a.id = req[p].id /\ a.status = "late" /\ a.notes = "sick"

\* C13: when the INSERT of an item of recordAttendance or markAllPresent is
\* rejected (the student and date got a record since the existence check, or the
\* student does not exist), the item gets a failed entry carrying the error, the
\* entries and the records of the earlier items stay as they are, and the loop
\* goes on: it is left only when every item has its entry, with status 200.
C13_ItemErrorIsolated ==
  /\ [][\A p \in Procs :
          LET sid == req[p].item.student_id
              rejected == /\ req[p].existing = 0
                          /\ \/ sid \notin DOMAIN students
                             \/ recordsOf(attendance, sid, req[p].item.date) # {}
          IN /\ (req[p].pc \in {"write", "mwrite"} /\ req'[p].pc # req[p].pc /\ rejected)
                => /\ req'[p].pc = (IF req[p].pc = "write" THEN "loop" ELSE "mloop")
                   /\ Len(req'[p].results) = Len(req[p].results) + 1
                   /\ SubSeq(req'[p].results, 1, Len(req[p].results)) = req[p].results
                   /\ ~lastEntry(req'[p]).success
                   /\ lastEntry(req'[p]).error =
                        (IF sid \in DOMAIN students THEN UniqueError ELSE ForeignKeyError)
                   /\ lastEntry(req'[p]).data.student_id = sid
                   /\ attendance' = attendance /\ nextId' = nextId
             /\ (req[p].pc \in {"loop", "mloop"} /\ req'[p].pc = "done")
                => /\ req'[p].status = 200 /\ req'[p].results = req[p].results
                   /\ Len(req[p].results) =
                        (IF req[p].pc = "loop" THEN req[p].n ELSE Len(req[p].todo))]_vars
  /\ [](\A p \in Procs : \A e \in entriesOf(req[p]) :
          (e.success /\ e.action = "created") => \E a \in attendance : a.id = e.id)

\* a request of two records has been answered: the INSERT of the first lost a
\* race, the second was written
C13_Witness ==
  /\ req[1].pc = "done" /\ req[1].kind = "record" /\ Len(req[1].results) = 2
  /\ ~req[1].results[1].success /\ req[1].results[1].error = UniqueError
  /\ req[1].results[2].success

\* C14: a request whose token passes jwt.verify while no users row has the id of
\* its userId claim is answered 401 'Invalid token. User not found.', and no
\* user is attached to it.
C14_UserNotFound ==
  [][\A p \in Procs :
       (/\ req[p].pc = "auth" /\ req'[p].pc # "auth"
        /\ jwtVerify(usedToken(req[p])) = ""
        /\ \A u \in users : u.id # usedToken(req[p]).userId)
       => /\ req'[p].pc = "done" /\ req'[p].status = 401
          /\ req'[p].error = "Invalid token. User not found."
          /\ req'[p].user = NoUser]_vars

\* the token of the teacher, presented after the users table lost the teacher,
\* has been answered 401
C14_Witness ==
  \E p \in Procs :
    /\ req[p].pc = "done" /\ req[p].status = 401
    /\ req[p].error = "Invalid token. User not found."
    /\ req[p].hdr.token \in issued /\ req[p].hdr.token.username = "teacher"
    /\ TeacherRow \notin users

\* C15: authenticateToken uses the token of a 'Bearer' Authorization header when
\* the header carries one, whatever the session: the request passes, as the user of the
\* token's claim, exactly when that token verifies and its user exists.  With no
\* bearer token and a session carrying a user id the request passes as the
\* session's user.  With neither it is answered 401 'Access denied. No token
\* provided.' and the users table is not read.
C15_CredentialOrder ==
  [][\A p \in Procs :
       (req[p].pc = "auth" /\ req'[p].pc # "auth")
       => LET h == req[p].hdr
              s == sessionOf(req[p].cookie)
              passed == req'[p].pc # "done"
              bearer == h.scheme = "Bearer" /\ h.token # NoToken
          IN /\ bearer
                => /\ passed <=> /\ h.token.sig = "ok" /\ clock < h.token.exp
                                 /\ \E u \in users : u.id = h.token.userId
                   /\ passed => req'[p].user.id = h.token.userId
             /\ (~bearer /\ s.userId # 0)
                => (passed /\ req'[p].user.id = s.userId)
             /\ (~bearer /\ s.userId = 0)
                => /\ req'[p].pc = "done" /\ req'[p].status = 401
                   /\ req'[p].error = "Access denied. No token provided."
                   /\ req'[p].user = NoUser
                   /\ ~authenticateToken(h, req[p].cookie).lookup]_vars

\* a request carrying the session of a login and a bearer token that does not
\* verify has been answered 401
C15_Witness ==
  \E p \in Procs :
    /\ req[p].pc = "done" /\ req[p].status = 401
    /\ req[p].hdr.scheme = "Bearer" /\ req[p].hdr.token # NoToken
    /\ sessionOf(req[p].cookie).userId # 0

C17_OptionalAsAuthenticate ==
  [][\A p \in Procs :
       (req[p].pc = "optionalAuth" /\ req'[p].pc # "optionalAuth")
       => LET r == authenticateToken(req[p].hdr, req[p].cookie)
          IN /\ req'[p].pc = "next"
             /\ req'[p].user = (IF r.status = 0 THEN r.user ELSE NoUser)]_vars

\* C17 amended: optionalAuth always calls next(); it attaches the user
\* authenticateToken would attach to a request with the same Authorization
\* header and no session when authenticateToken would let that request pass, and
\* attaches none otherwise.
C17_OptionalBearerOnly ==
  [][\A p \in Procs :
       (req[p].pc = "optionalAuth" /\ req'[p].pc # "optionalAuth")
       => LET r == authenticateToken(req[p].hdr, NoSession)
          IN /\ req'[p].pc = "next"
             /\ req'[p].user = (IF r.status = 0 THEN r.user ELSE NoUser)]_vars

\* optionalAuth has let through a request with the token of a login, with the
\* user of the token attached
C17_Witness ==
  \E p \in Procs :
    /\ req[p].pc = "next" /\ req[p].kind = "optional"
    /\ req[p].hdr.scheme = "Bearer" /\ req[p].hdr.token \in issued
    /\ req[p].user.id = req[p].hdr.token.userId /\ req[p].user # NoUser

\* C18: the user attached to a request by authenticateToken or optionalAuth and
\* the user data in the responses of login, getProfile, updateProfile, register
\* and verifyToken have no password_hash field.
C18_NoPasswordHashSent ==
  \A p \in Procs :
    /\ "password_hash" \notin DOMAIN req[p].user
    /\ "password_hash" \notin DOMAIN req[p].data

\* a login has been answered with the user's profile, and a request of the user
\* has got its profile from getProfile
C18_Witness ==
  \E p \in Procs :
    /\ req[p].pc = "done" /\ req[p].status = 200 /\ req[p].kind \in {"login", "profile"}
    /\ req[p].data.username = "teacher" /\ "email" \in DOMAIN req[p].data

\* C19: the token a login issues carries the id, the username and the role of a
\* user and expires TokenTTL = 24 hours after the login; presented as a bearer
\* token it lets the request pass as that user at every time before the expiry,
\* and is answered 401 'Token expired. Please login again.' at every time after.
C19_TokenLifetime ==
  [][/\ \A t \in issued' \ issued :
          /\ t.exp = clock + TokenTTL /\ t.sig = "ok"
          /\ \E u \in users : t.userId = u.id /\ t.username = u.username /\ t.role = u.role
     /\ \A p \in Procs :
          (/\ req[p].pc = "auth" /\ req'[p].pc # "auth"
           /\ req[p].hdr.scheme = "Bearer" /\ req[p].hdr.token \in issued)
          => LET t == req[p].hdr.token
             IN /\ clock < t.exp
                   => /\ req'[p].pc # "done"
                      /\ req'[p].user.id = t.userId /\ req'[p].user.role = t.role
                /\ clock > t.exp
                   => /\ req'[p].pc = "done" /\ req'[p].status = 401
                      /\ req'[p].error = "Token expired. Please login again."]_vars

\* the token of a login has been answered 401 more than 24 hours after the login
C19_Witness ==
  \E p \in Procs :
    /\ req[p].pc = "done" /\ req[p].status = 401
    /\ req[p].error = "Token expired. Please login again."
    /\ req[p].hdr.token \in issued /\ clock > req[p].hdr.token.exp

C21_BulkIsRecord ==
  [][\A p \in Procs :
       (req[p].pc = "bulk" /\ req'[p] # req[p])
       => /\ req'[p] = [req[p] EXCEPT !.pc = HandlerEntry("record"), !.kind = "record"]
          /\ UNCHANGED <<attendance, nextId, students, users, issued, sessions>>]_vars

\* a body of two records sent to POST /bulk has been answered by recordAttendance
\* with a record created and an entry that failed
C21_Witness ==
  /\ req[2].pc = "done" /\ req[2].status = 200 /\ req[2].n = 2
  /\ req[2].summary.successful = 1 /\ req[2].summary.failed = 1
  /\ \E i \in 1..2 : /\ req[2].results[i].action = "created"
                     /\ \E a \in attendance : a.id = req[2].results[i].id

C23_RegisterAdminOnly ==
  [][/\ \A p \in Procs :
          (req[p].pc = "register" /\ req'[p] # req[p] /\ req[p].user.role # "admin")
          => /\ req'[p].pc = "done" /\ req'[p].status = 403
             /\ users' = users
     /\ ({u.id : u \in users'} \ {u.id : u \in users} # {})
          => \E p \in Procs :
               /\ req[p].kind = "register" /\ req'[p].status = 201
               /\ req[p].user.role = "admin"
               /\ \E u \in users : u.id = req[p].user.id /\ u.role = "admin"
               /\ users \subseteq users']_vars

\* the register request of a teacher has been answered 403, and the table holds
\* the rows it held
C23_Witness ==
  \E p \in Procs :
    /\ req[p].pc = "done" /\ req[p].kind = "register" /\ req[p].status = 403
    /\ req[p].user.role = "teacher"
    /\ users = {AdminRow, TeacherRow}

\* C24: a submission of a single record that omits student_id, date or status is
\* answered 400, and no record is written for it.
C24_SingleMissingFields400 ==
  \A p \in Procs :
    (/\ req[p].pc = "done" /\ req[p].kind = "record" /\ req[p].n = 1
     /\ Len(req[p].results) = 1 /\ missingFields(req[p].results[1].data))
    => /\ req[p].status = 400
       /\ ~req[p].results[1].success

\* C25: after a logout, a request presenting the credentials of the login before
\* it, the session cookie or the bearer token, is not authenticated: the
\* middleware answers it 401.
C25_LogoutInvalidates ==
  [][\A p \in Procs :
       (/\ req[p].pc = "auth" /\ req'[p].pc # "auth"
        /\ \/ /\ req[p].hdr.scheme = "Bearer" /\ req[p].hdr.token \in issued
              /\ sessionCookie(req[p].hdr.token) \notin sessions
           \/ /\ req[p].hdr = NoHeader /\ req[p].cookie # NoSession
              /\ req[p].cookie \notin sessions)
       => req'[p].pc = "done" /\ req'[p].status = 401]_vars

\* C26: with requests handled one after another, an item of recordAttendance
\* that succeeds reports 'updated' with the id of the record of its (student_id,
\* date) exactly when there was one before the item was processed, and 'created'
\* with an id no record had exactly when there was none; the update changes the
\* status and the notes of that record only, the creation adds one record and
\* changes no other.
C26_UpdatedOrCreated ==
  [][\A p \in Procs :
       (/\ req[p].pc = "write" /\ req[p].kind = "record" /\ req'[p].pc = "loop"
        /\ lastEntry(req'[p]).success)
       => LET e == lastEntry(req'[p])
              item == req[p].item
              pre == {a \in attendance : a.student_id = item.student_id /\ a.date = item.date}
          IN /\ e.action \in {"updated", "created"}
             /\ (e.action = "updated") <=> (pre # {})
             /\ e.action = "updated"
                => /\ \E a \in pre : a.id = e.id
                   /\ attendance' = (attendance \ pre)
                        \cup {[a EXCEPT !.status = item.status, !.notes = item.notes] : a \in pre}
             /\ e.action = "created"
                => /\ e.id \notin {a.id : a \in attendance}
                   /\ attendance' = attendance
                        \cup {[id |-> e.id, student_id |-> item.student_id, date |-> item.date,
                               status |-> item.status, notes |-> item.notes]}]_vars

\* a request of two records for one student and date has been answered: the
\* first entry reports a creation, the second an update of the record created
C26_Witness ==
  \E p \in Procs :
    /\ req[p].pc = "done" /\ req[p].kind = "record" /\ Len(req[p].results) = 2
    /\ req[p].results[1].action = "created" /\ req[p].results[2].action = "updated"
    /\ req[p].results[2].id = req[p].results[1].id

\* C27: whatever the interleaving of recordAttendance and markAllPresent with
\* deleteAttendance, when the write of an item has completed and its entry has
\* success true, the table holds a record for the item's (student_id, date) with
\* the status submitted ('present' for markAllPresent).
C27_SuccessMeansWritten ==
  [][\A p \in Procs :
       (/\ req[p].pc \in {"write", "mwrite"} /\ req'[p].pc \in {"loop", "mloop"}
        /\ lastEntry(req'[p]).success)
       => \E a \in attendance' :
            /\ a.student_id = req[p].item.student_id /\ a.date = req[p].item.date
            /\ a.status = IF req[p].kind = "markAll" THEN "present" ELSE req[p].item.status]_vars

touched == (attendance' \ attendance) \cup (attendance \ attendance')

\* C29 as stated: every record a step of markAllPresent adds or changes is for
\* the given date and for a student who is an active member of the class; a
\* class without active students is answered 404, and nothing is changed.
C29_OnlyActiveOfClass ==
  [][\A p \in Procs :
       (req[p].kind = "markAll" /\ req[p].pc \in {"mark", "mloop", "mwrite"}
        /\ req'[p] # req[p])
       => /\ \A a \in touched :
               /\ a.date = req[p].item.date
               /\ a.student_id \in DOMAIN students
               /\ students[a.student_id].class_id = req[p].class_id
               /\ students[a.student_id].status = "active"
          /\ (req'[p].pc = "done" /\ req'[p].status = 404) => touched = {}]_vars

\* C29, amended: every record a step of markAllPresent adds or changes is for the
\* given date and for a student who was an active member of the class when the
\* handler loaded the class's students; records of other classes, of students
\* inactive at that time and of other dates are left as they are; a class
\* without active students at that time is answered 404, and nothing is changed.
C29_OnlyLoadedOfClass ==
  [][\A p \in Procs :
       (req[p].kind = "markAll" /\ req[p].pc \in {"mark", "mloop", "mwrite"}
        /\ req'[p] # req[p])
       => LET members == {s \in DOMAIN students :
                            /\ students[s].class_id = req'[p].class_id
                            /\ students[s].status = "active"}
          IN /\ req[p].pc = "mark"
                => /\ touched = {}
                   /\ req'[p].pc = "mloop"
                        => {req'[p].todo[i] : i \in 1..Len(req'[p].todo)} = members
                   /\ (req'[p].pc = "done" /\ req'[p].status = 404)
                        <=> (members = {} /\ req'[p].class_id # 0 /\ req'[p].item.date # 0)
             /\ req[p].pc # "mark"
                => \A a \in touched :
                     /\ a.date = req[p].item.date
                     /\ a.student_id \in {req[p].todo[i] : i \in 1..Len(req[p].todo)}
                     /\ students[a.student_id].class_id = req[p].class_id]_vars

\* markAllPresent has answered for the first class while the table held a record
\* of a student of the second class and a record of another date, which are
\* still there with the status they had
C29_Witness ==
  \E p \in Procs :
    /\ req[p].pc = "done" /\ req[p].kind = "markAll" /\ req[p].status = 200
    /\ req[p].class_id = 1 /\ req[p].summary.successful > 0
    /\ \E a \in attendance :
         /\ a.status = "absent"
         /\ \/ students[a.student_id].class_id # req[p].class_id
            \/ a.date # req[p].item.date

\* C30: for every user the table comes to hold, login with the user's username
\* or the user's email and the user's password is answered 200 with a token
\* whose userId is the user's id.
C30_LoginResolvesToUser ==
  \A u \in users :
    \A name \in {u.username, u.email} :
      \A r \in login(name, u.password_hash[2]) :
        r.status = 200 /\ r.token.userId = u.id

====
